---------------------------- MODULE Spec2Model ----------------------------
(***************************************************************************)
(* Model of the incremental draw.io SVG export tool.                       *)
(*                                                                         *)
(*   "cli"    : src/software/drawio-svg-export/export-drawio-svg.py        *)
(*   "script" : src/software/drawio-svg-export-script/export-drawio-svg.py *)
(*                                                                         *)
(* Strings are sequences of one-character strings, so that concatenation,  *)
(* regex substitution, str(int), int(str) and sorted() are modelled by     *)
(* what they do.  A SHA-1 digest is modelled by the byte sequence fed to   *)
(* the hash (SHA-1 is taken to be injective on the inputs considered).     *)
(***************************************************************************)
EXTENDS Integers, Sequences, FiniteSets, TLC

VARIABLES
    variant,      \* which of the two scripts is run: "cli" or "script"
    doc,          \* the .drawio source file: [parses, diagrams, raises]
    files,        \* SVG files in the output directory: filename -> digest of the page rendered
    manifest,     \* content of the manifest file .drawio-export.<base>.json
    tmpfile,      \* content of the manifest's .tmp sibling
    pc,           \* position of the running export
    opts,         \* command-line flags of the running export: [full, clean, dry_run]
    plan,         \* result of incremental_selection / determine_exports
    todo,         \* stale files and pages still to be processed by the loops
    exported,     \* the list `exported` of export_pages / do_export
    exitCode,     \* how the last run ended
    hist,         \* history: what the last completed run saw, what changed since
    budget,       \* history: runs and outside changes made so far
    elem,         \* fingerprint study: the page element under study
    elemPrev,     \* fingerprint study: the element before the last edit
    lastEdit,     \* fingerprint study: kind of the last edit
    outdirExists, \* whether the output directory exists
    trace,        \* history: what the running process did to the disk and which programs it ran
    git,          \* version control of the running process: [repo, staged, push]
    calls,        \* history: the renderer command lines the running process has run
    prevManifest  \* history: the manifest file as the running process found it

vars == <<variant, doc, files, manifest, tmpfile, pc, opts, plan, todo, exported,
          exitCode, hist, budget, elem, elemPrev, lastEdit, outdirExists, trace, git, calls, prevManifest>>

runVars == <<variant, files, manifest, tmpfile, pc, opts, plan, todo, exported,
             exitCode, hist, budget, outdirExists, trace, git, calls, prevManifest>>

hashVars == <<elem, elemPrev, lastEdit>>

sysVars == <<outdirExists, trace, git, calls, prevManifest>>

---------------------------------------------------------------------------
(* Bounds *)

MaxPages == 3
MaxEnv == 2
MaxRuns == 2
MaxTitles == 3
MaxChildren == 2

---------------------------------------------------------------------------
(* Strings *)

\* Characters of the model in code-point order (Python compares str by code point).
CharOrder == <<"\t", "\n", " ", "\"", "(", ")", "*", "-", ".", "/", "0", "1", "2", "3",
               "4", "5", "6", "7", "8", "9", ":", "<", "=", ">", "?", "A", "B", "I", "P",
               "R", "U", "\\", "_", "a", "b", "c", "d", "e", "f", "g", "i", "k", "l", "m",
               "n", "o", "p", "r", "s", "t", "u", "v", "x", "y", "|">>

Ord(c) == CHOOSE i \in 1..Len(CharOrder) : CharOrder[i] = c

\* a < b for Python str
RECURSIVE StrLess(_, _)
StrLess(a, b) ==
    IF b = <<>> THEN FALSE
    ELSE IF a = <<>> THEN TRUE
    ELSE IF Head(a) # Head(b) THEN Ord(Head(a)) < Ord(Head(b))
    ELSE StrLess(Tail(a), Tail(b))

Digits == <<"0", "1", "2", "3", "4", "5", "6", "7", "8", "9">>

\* str(n) for n >= 0
RECURSIVE IntToStr(_)
IntToStr(n) ==
    IF n < 10 THEN <<Digits[n + 1]>>
    ELSE IntToStr(n \div 10) \o <<Digits[(n % 10) + 1]>>

IsDigit(c) == \E i \in 1..10 : Digits[i] = c

DigitVal(c) == (CHOOSE i \in 1..10 : Digits[i] = c) - 1

\* int(s) succeeds (signs, underscores and surrounding blanks are not in the model's keys)
IsIntStr(s) == Len(s) > 0 /\ \A i \in 1..Len(s) : IsDigit(s[i])

RECURSIVE StrToInt(_)
StrToInt(s) ==
    IF s = <<>> THEN 0
    ELSE 10 * StrToInt(SubSeq(s, 1, Len(s) - 1)) + DigitVal(s[Len(s)])

RECURSIVE Concat(_)
Concat(ss) == IF ss = <<>> THEN <<>> ELSE Head(ss) \o Concat(Tail(ss))

\* sep.join(ss)
RECURSIVE Join(_, _)
Join(sep, ss) ==
    IF ss = <<>> THEN <<>>
    ELSE IF Len(ss) = 1 THEN ss[1]
    ELSE ss[1] \o sep \o Join(sep, Tail(ss))

---------------------------------------------------------------------------
(* sanitize *)

Forbidden == {"\\", "/", ":", "\"", "*", "?", "<", ">", "|"}

Whitespace == {" ", "\t", "\n"}

RECURSIVE DropWhile(_, _)
DropWhile(class, s) ==
    IF s # <<>> /\ Head(s) \in class THEN DropWhile(class, Tail(s)) ELSE s

\* re.sub('[class]+', rep, s): every maximal run of class characters becomes rep
RECURSIVE SubRuns(_, _, _)
SubRuns(class, rep, s) ==
    IF s = <<>> THEN <<>>
    ELSE IF Head(s) \in class THEN <<rep>> \o SubRuns(class, rep, DropWhile(class, Tail(s)))
    ELSE <<Head(s)>> \o SubRuns(class, rep, Tail(s))

RECURSIVE DropWhileEnd(_, _)
DropWhileEnd(class, s) ==
    IF s # <<>> /\ s[Len(s)] \in class
    THEN DropWhileEnd(class, SubSeq(s, 1, Len(s) - 1))
    ELSE s

\* str.strip()
Strip(s) == DropWhileEnd(Whitespace, DropWhile(Whitespace, s))

sUntitled == <<"U", "n", "t", "i", "t", "l", "e", "d">>

\* (mutant) no placeholder for an empty result
SanitizeNoPlaceholder(name) == Strip(SubRuns(Whitespace, " ", SubRuns(Forbidden, "_", name)))

sanitize(name) ==
    LET a == SubRuns(Forbidden, "_", name)
        b == Strip(SubRuns(Whitespace, " ", a))
    IN  IF b = <<>> THEN sUntitled ELSE b

---------------------------------------------------------------------------
(* XML elements: [tag, attrib, text, children, tail]                       *)
(* attrib is the dict in insertion (document) order: a sequence of         *)
(* <<key, value>> with distinct keys.  text and tail are <<>> when None.   *)

Elem(tag, attrib, text, children, tail) ==
    [tag |-> tag, attrib |-> attrib, text |-> text, children |-> children, tail |-> tail]

AttrKeys(attrib) == [i \in 1..Len(attrib) |-> attrib[i][1]]

AttrHas(attrib, k) == \E i \in 1..Len(attrib) : attrib[i][1] = k

\* attrib[k]
AttrGet(attrib, k) == attrib[CHOOSE i \in 1..Len(attrib) : attrib[i][1] = k][2]

RECURSIVE Insert(_, _)
Insert(k, sorted) ==
    IF sorted = <<>> THEN <<k>>
    ELSE IF StrLess(k, Head(sorted)) THEN <<k>> \o sorted
    ELSE <<Head(sorted)>> \o Insert(k, Tail(sorted))

RECURSIVE SortStr(_)
SortStr(ks) == IF ks = <<>> THEN <<>> ELSE Insert(Head(ks), SortStr(Tail(ks)))

\* (mutant) the attributes are visited in document order
InsertionKeyOrder(attrib) == AttrKeys(attrib)

\* (mutant) the attributes are not hashed at all
NoKeys(attrib) == <<>>

\* the order in which page_hash visits the attributes of a node: sorted(node.attrib)
HashKeyOrder(attrib) == SortStr(AttrKeys(attrib))

\* the bytes walk(node) feeds to the hash
RECURSIVE walk(_)
walk(node) ==
    LET ks == HashKeyOrder(node.attrib)
    IN  node.tag
        \o Concat([i \in 1..Len(ks) |-> ks[i] \o AttrGet(node.attrib, ks[i])])
        \o node.text
        \o Concat([i \in 1..Len(node.children) |-> walk(node.children[i])])
        \o node.tail

\* the bytes page_hash feeds to SHA-1; the cli script first feeds "k=v|k=v" of the page element
page_hash(e, v) ==
    LET ks == HashKeyOrder(e.attrib)
        attrs == Join(<<"|">>, [i \in 1..Len(ks) |-> ks[i] \o <<"=">> \o AttrGet(e.attrib, ks[i])])
    IN  IF v = "cli" THEN attrs \o walk(e) ELSE walk(e)

sFallback == <<"s", "i", "n", "g", "l", "e", "-", "p", "a", "g", "e", "-",
               "f", "a", "l", "l", "b", "a", "c", "k">>

---------------------------------------------------------------------------
(* plan_pages *)

sName == <<"n", "a", "m", "e">>
sDiagram == <<"d", "i", "a", "g", "r", "a", "m">>
sPage == <<"P", "a", "g", "e", " ">>
sSvg == <<".", "s", "v", "g">>

\* ET.parse fails with ParseError -> []; else root.findall(".//diagram")
get_page_elements(d) == IF d.parses THEN d.diagrams ELSE <<>>

\* ET.parse fails with an exception that is not a ParseError (LookupError for an unknown
\* encoding in the XML declaration, ValueError for a multi-byte one): not caught
ParseRaises(d) == d.raises \notin {"none", "ParseError"}

\* d.attrib.get("name") or f"Page {i+1}"   (i is 0-based)
TitleOf(d, i) ==
    IF AttrHas(d.attrib, sName) /\ AttrGet(d.attrib, sName) # <<>>
    THEN AttrGet(d.attrib, sName)
    ELSE sPage \o IntToStr(i + 1)

\* [ ... for i, d in enumerate(diagrams) ] or ["Page 1"]
TitlesOf(diagrams) ==
    IF diagrams = <<>> THEN << sPage \o IntToStr(1) >>
    ELSE [i \in 1..Len(diagrams) |-> TitleOf(diagrams[i], i - 1)]

Put(f, k, v) == [x \in (DOMAIN f) \cup {k} |-> IF x = k THEN v ELSE f[x]]

\* f"{base} ({count})"
Numbered(base, count) == base \o <<" ", "(">> \o IntToStr(count) \o <<")">>

\* (mutant) the counter goes up by two
RECURSIVE FreeNameSkipping(_, _, _, _)
FreeNameSkipping(seen, base, count, n) ==
    IF n \in DOMAIN seen
    THEN FreeNameSkipping(seen, base, count + 2, Numbered(base, count + 2))
    ELSE [count |-> count, n |-> n]

\* while n in seen: count += 1; n = f"{base} ({count})"
RECURSIVE FreeName(_, _, _, _)
FreeName(seen, base, count, n) ==
    IF n \in DOMAIN seen
    THEN FreeName(seen, base, count + 1, Numbered(base, count + 1))
    ELSE [count |-> count, n |-> n]

\* (mutant) only the base name is remembered, not the name handed out
RememberBaseOnly(seen, base, count, n) == Put(seen, base, count)

\* seen[base] = count; seen[n] = 0
Remember(seen, base, count, n) == Put(Put(seen, base, count), n, 0)

\* one iteration of the de-duplication loop, for title t
DedupStep(seen, t) ==
    LET base == sanitize(t)
        count0 == IF base \in DOMAIN seen THEN seen[base] ELSE 0
        r == FreeName(seen, base, count0, base)
    IN  [seen |-> Remember(seen, base, r.count, r.n), n |-> r.n]

\* the de-duplication loop over titles[k..]; yields the names n in order
RECURSIVE Dedup(_, _, _)
Dedup(titles, k, seen) ==
    IF k > Len(titles) THEN <<>>
    ELSE LET s == DedupStep(seen, titles[k])
         IN  <<s.n>> \o Dedup(titles, k + 1, s.seen)

\* file_specs: (idx, n + ".svg") with idx 0-based
FileSpecs(titles) ==
    LET names == Dedup(titles, 1, <<>>)
    IN  [i \in 1..Len(names) |-> [idx |-> i - 1, filename |-> names[i] \o sSvg]]

\* hashes: page index -> digest
Hashes(diagrams, v) ==
    IF diagrams # <<>>
    THEN [i \in 0..(Len(diagrams) - 1) |-> page_hash(diagrams[i + 1], v)]
    ELSE [i \in {0} |-> sFallback]

\* (mutant) a document without pages gets a fingerprint of what the file holds
PlanPagesHashingFile(d, v) ==
    LET diagrams == get_page_elements(d)
    IN  [file_specs |-> FileSpecs(TitlesOf(diagrams)),
         hashes |-> IF diagrams # <<>> THEN Hashes(diagrams, v)
                    ELSE [i \in {0} |-> IF d.parses THEN <<"e">> ELSE <<"g">>]]

plan_pages(d, v) ==
    LET diagrams == get_page_elements(d)
    IN  [file_specs |-> FileSpecs(TitlesOf(diagrams)), hashes |-> Hashes(diagrams, v)]

---------------------------------------------------------------------------
(* The manifest file                                                       *)
(* kind: "absent" (no file), "garbage" (json.load raises), "json".         *)
(* A parsed JSON value is [top, pagesType, pages]: the type of the top     *)
(* level value, the type of its "pages" member ("missing" when there is    *)
(* none) and the members of "pages" in file order, each [key, type,        *)
(* filename, hash] with type the JSON type of the member's value.          *)

Json(top, pagesType, pages) ==
    [kind |-> "json", top |-> top, pagesType |-> pagesType, pages |-> pages]

NoFile == [kind |-> "absent", top |-> "none", pagesType |-> "missing", pages |-> <<>>]

Garbage == [kind |-> "garbage", top |-> "none", pagesType |-> "missing", pages |-> <<>>]

\* {}
EmptyDict == Json("object", "missing", <<>>)

\* not os.path.isfile(path) -> {};  json.load raises -> {};  else the parsed value
load_manifest(m) == IF m.kind = "json" THEN m ELSE EmptyDict

RECURSIVE InsertEntry(_, _)
InsertEntry(e, sorted) ==
    IF sorted = <<>> THEN <<e>>
    ELSE IF StrLess(e.key, Head(sorted).key) THEN <<e>> \o sorted
    ELSE <<Head(sorted)>> \o InsertEntry(e, Tail(sorted))

RECURSIVE SortEntries(_)
SortEntries(es) == IF es = <<>> THEN <<>> ELSE InsertEntry(Head(es), SortEntries(Tail(es)))

\* (mutant) the pages are recorded under 1-based keys
NewPagesOneBased(pp) ==
    [i \in 1..Len(pp.file_specs) |->
        [key |-> IntToStr(pp.file_specs[i].idx + 1), type |-> "object",
         filename |-> pp.file_specs[i].filename, hash |-> pp.hashes[pp.file_specs[i].idx]]]

\* new_pages = { str(idx): {"filename": fname, "hash": hashes[idx]} ... }
NewPages(pp) ==
    [i \in 1..Len(pp.file_specs) |->
        [key |-> IntToStr(pp.file_specs[i].idx), type |-> "object",
         filename |-> pp.file_specs[i].filename, hash |-> pp.hashes[pp.file_specs[i].idx]]]

\* json.dump(data, f, indent=2, sort_keys=True): members of "pages" sorted by key
Dump(new_pages) == Json("object", "object", SortEntries(new_pages))

---------------------------------------------------------------------------
(* incremental_selection (cli) and determine_exports (script) *)

\* prev.get("pages", {}) raises AttributeError unless prev is a dict
GetPagesRaises(prev) == prev.top # "object"

\* bool(prev_pages)
Truthy(prev) == prev.pagesType # "missing" /\ prev.pages # <<>>

\* {int(k): v for k, v in prev_pages.items()} if prev_pages else {}  raises:
\* .items() on a non-dict, or int(k) on a key that is no number
ByIndexRaises(prev) ==
    Truthy(prev) /\ (prev.pagesType # "object" \/ \E i \in 1..Len(prev.pages) : ~IsIntStr(prev.pages[i].key))

\* the position in prev.pages of prev_by_index[idx] (0: none); a later duplicate wins
CliEntryPos(prev, idx) ==
    LET hits == {i \in 1..Len(prev.pages) : StrToInt(prev.pages[i].key) = idx}
    IN  IF ~Truthy(prev) \/ hits = {} THEN 0 ELSE CHOOSE i \in hits : \A j \in hits : j <= i

\* the position in prev.pages of prev_pages.get(str(idx)) (0: none)
ScriptEntryPos(prev, idx) ==
    LET hits == {i \in 1..Len(prev.pages) : prev.pages[i].key = IntToStr(idx)}
    IN  IF hits = {} THEN 0 ELSE CHOOSE i \in hits : \A j \in hits : j <= i

EntryPos(prev, idx, v) == IF v = "cli" THEN CliEntryPos(prev, idx) ELSE ScriptEntryPos(prev, idx)

\* os.path.isfile(os.path.join(outdir, fname))
IsFile(fs, fname) == fname \in DOMAIN fs

\* (mutant) a changed target filename is not noticed
NeedsExportNoFilename(fs, entry, h, fname) == (h # entry.hash) \/ ~IsFile(fs, fname)

\* (mutant) a missing output file is not noticed
NeedsExportNoFileCheck(fs, entry, h, fname) == (h # entry.hash) \/ (fname # entry.filename)

\* the test that puts (idx, fname) with digest h into to_export, given its previous entry
NeedsExport(fs, entry, h, fname) ==
    (h # entry.hash) \/ (fname # entry.filename) \/ ~IsFile(fs, fname)

\* the selection loop raises: prev_entry.get on an entry that is no dict
SelectRaises(pp, prev, full, v) ==
    \E i \in 1..Len(pp.file_specs) :
        LET pos == EntryPos(prev, pp.file_specs[i].idx, v)
        IN  ~(v = "cli" /\ full) /\ pos # 0 /\ prev.pages[pos].type # "object"

Selected(pp, prev, fs, full, v, i) ==
    LET spec == pp.file_specs[i]
        pos == EntryPos(prev, spec.idx, v)
    IN  IF (v = "cli" /\ full) \/ pos = 0 THEN TRUE
        ELSE NeedsExport(fs, prev.pages[pos], pp.hashes[spec.idx], spec.filename)

RECURSIVE SelectFrom(_, _, _, _, _, _)
SelectFrom(pp, prev, fs, full, v, i) ==
    IF i > Len(pp.file_specs) THEN <<>>
    ELSE (IF Selected(pp, prev, fs, full, v, i) THEN <<pp.file_specs[i]>> ELSE <<>>)
         \o SelectFrom(pp, prev, fs, full, v, i + 1)

\* the keys of prev_by_index in iteration order: first insertion of each int(k)
RECURSIVE IndexOrder(_, _, _)
IndexOrder(prev, i, seenIdx) ==
    IF i > Len(prev.pages) THEN <<>>
    ELSE LET k == StrToInt(prev.pages[i].key)
         IN  IF k \in seenIdx THEN IndexOrder(prev, i + 1, seenIdx)
             ELSE <<k>> \o IndexOrder(prev, i + 1, seenIdx \cup {k})

\* the stale loop raises: v.get on an entry that is no dict
StaleRaises(prev, clean) ==
    clean /\ Truthy(prev) /\ \E i \in 1..Len(prev.pages) : prev.pages[i].type # "object"

\* (mutant) stale files are listed whether or not they exist
IsStaleNoIsFile(pp, fs, k, old) ==
    \/ k \notin {pp.file_specs[i].idx : i \in 1..Len(pp.file_specs)}
    \/ old \notin {pp.file_specs[i].filename : i \in 1..Len(pp.file_specs)}

\* (mutant) only renamed pages leave stale files, removed pages do not
IsStaleRenamedOnly(pp, fs, k, old) ==
    /\ k \in {pp.file_specs[i].idx : i \in 1..Len(pp.file_specs)}
    /\ old \notin {pp.file_specs[i].filename : i \in 1..Len(pp.file_specs)}
    /\ IsFile(fs, old)

\* (mutant) every file of the previous manifest that exists is stale
IsStaleEveryOld(pp, fs, k, old) == IsFile(fs, old)

IsStale(pp, fs, k, old) ==
    /\ \/ k \notin {pp.file_specs[i].idx : i \in 1..Len(pp.file_specs)}
       \/ old \notin {pp.file_specs[i].filename : i \in 1..Len(pp.file_specs)}
    /\ IsFile(fs, old)

RECURSIVE StaleFrom(_, _, _, _)
StaleFrom(pp, prev, fs, ks) ==
    IF ks = <<>> THEN <<>>
    ELSE LET old == prev.pages[CliEntryPos(prev, Head(ks))].filename
         IN  (IF IsStale(pp, fs, Head(ks), old) THEN <<old>> ELSE <<>>)
             \o StaleFrom(pp, prev, fs, Tail(ks))

StaleFiles(pp, prev, fs, clean) ==
    IF clean /\ Truthy(prev) THEN StaleFrom(pp, prev, fs, IndexOrder(prev, 1, {})) ELSE <<>>

NoPlan ==
    [raised |-> FALSE, file_specs |-> <<>>, hashes |-> <<>>, to_export |-> <<>>,
     stale |-> <<>>, new_manifest |-> NoFile]

Raised == [NoPlan EXCEPT !.raised = TRUE]

\* the body of incremental_selection after plan_pages and load_manifest returned pp and prev
CliSelection(pp, prev, fs, full, clean) ==
    IF GetPagesRaises(prev) \/ ByIndexRaises(prev)
       \/ SelectRaises(pp, prev, full, "cli") \/ StaleRaises(prev, clean)
    THEN Raised
    ELSE [raised |-> FALSE, file_specs |-> pp.file_specs, hashes |-> pp.hashes,
          to_export |-> SelectFrom(pp, prev, fs, full, "cli", 1),
          stale |-> StaleFiles(pp, prev, fs, clean),
          new_manifest |-> Dump(NewPages(pp))]

incremental_selection(d, fs, m, full, clean) ==
    IF ParseRaises(d) THEN Raised
    ELSE CliSelection(plan_pages(d, "cli"), load_manifest(m), fs, full, clean)

\* prev_pages.get(str(idx)) raises AttributeError unless prev_pages is a dict
ScriptGetRaises(prev) == prev.pagesType = "array"

\* the body of determine_exports after plan_pages and load_manifest returned pp and prev
ScriptSelection(pp, prev, fs) ==
    IF GetPagesRaises(prev) \/ ScriptGetRaises(prev) \/ SelectRaises(pp, prev, FALSE, "script")
    THEN Raised
    ELSE [raised |-> FALSE, file_specs |-> pp.file_specs, hashes |-> pp.hashes,
          to_export |-> SelectFrom(pp, prev, fs, FALSE, "script", 1),
          stale |-> <<>>,
          new_manifest |-> Dump(NewPages(pp))]

determine_exports(d, fs, m) ==
    IF ParseRaises(d) THEN Raised
    ELSE ScriptSelection(plan_pages(d, "script"), load_manifest(m), fs)

---------------------------------------------------------------------------
(* Documents of the model *)

sIntro == <<"I", "n", "t", "r", "o">>
sResults == <<"R", "e", "s", "u", "l", "t", "s">>
sIntroSp == <<"I", "n", "t", "r", "o", " ">>

\* <diagram name="title">body</diagram>
Diagram(title, body) == Elem(sDiagram, << <<sName, title>> >>, body, <<>>, <<>>)

\* <diagram>body</diagram>
Unnamed(body) == Elem(sDiagram, <<>>, body, <<>>, <<>>)

Bodies == {<<"x">>, <<"y">>}

SeedPages == {Diagram(sIntro, <<"x">>)}

EditTitles == {sIntro, sResults, sIntroSp}

Doc(diagrams) == [parses |-> TRUE, diagrams |-> diagrams, raises |-> "none"]

\* a file that is not well-formed XML
Unparseable == [parses |-> FALSE, diagrams |-> <<>>, raises |-> "ParseError"]

\* a file whose XML declaration names an encoding the parser does not support
Undecodable == [parses |-> FALSE, diagrams |-> <<>>, raises |-> "LookupError"]

SeqsUpTo(S, n) == UNION {[1..k -> S] : k \in 0..n}

InitDocs == {Doc(ds) : ds \in SeqsUpTo(SeedPages, MaxPages)} \cup {Unparseable, Undecodable}

Remove(f, k) == [x \in (DOMAIN f) \ {k} |-> f[x]]

RemoveAt(seq, i) == SubSeq(seq, 1, i - 1) \o SubSeq(seq, i + 1, Len(seq))

SetAttr(attrib, k, v) ==
    IF AttrHas(attrib, k)
    THEN [i \in 1..Len(attrib) |-> IF attrib[i][1] = k THEN <<k, v>> ELSE attrib[i]]
    ELSE Append(attrib, <<k, v>>)

---------------------------------------------------------------------------
(* The export run *)

NoOpts == [full |-> FALSE, clean |-> FALSE, dry_run |-> FALSE]

\* the script has no flags: never full, no clean-up, never dry
Options == IF variant = "cli" THEN [full : BOOLEAN, clean : BOOLEAN, dry_run : BOOLEAN] ELSE {NoOpts}

NoTodo == [stale |-> <<>>, pages |-> <<>>]

NoHist == [completed |-> FALSE, doc |-> Unparseable, removed |-> {}]

\* no repository found yet, nothing staged, push not asked for
NoGit == [repo |-> FALSE, staged |-> {}, push |-> FALSE]

\* one entry of the trace: the operation and how it ended
Ev(op, res) == <<op, res>>

InitRun ==
    /\ variant \in {"cli", "script"}
    /\ files = <<>>
    /\ manifest = NoFile
    /\ tmpfile = NoFile
    /\ pc = "idle"
    /\ opts = NoOpts
    /\ plan = NoPlan
    /\ todo = NoTodo
    /\ exported = <<>>
    /\ exitCode = "none"
    /\ hist = NoHist
    /\ budget = [runs |-> 0, env |-> 0]
    /\ outdirExists \in BOOLEAN
    /\ trace = <<>>
    /\ git = NoGit
    /\ calls = <<>>
    /\ prevManifest = NoFile

InitHash ==
    /\ elem = Unnamed(<<>>)
    /\ elemPrev = Unnamed(<<>>)
    /\ lastEdit = "none"

Init ==
    /\ InitRun
    /\ InitHash
    /\ doc \in InitDocs

\* export_pages / do_export up to the return of incremental_selection / determine_exports
Start(o) ==
    /\ pc \in {"idle", "pulled"}
    /\ budget.runs < MaxRuns
    /\ \E r \in { IF variant = "cli"
                   THEN incremental_selection(doc, files, manifest, o.full, o.clean)
                   ELSE determine_exports(doc, files, manifest) } :
          /\ plan' = r
          /\ pc' = IF r.raised THEN "done" ELSE "planned"
          /\ exitCode' = IF r.raised THEN "exception" ELSE "running"
          /\ todo' = [stale |-> r.stale, pages |-> r.to_export]
          /\ hist' = [hist EXCEPT !.removed = IF r.raised THEN {} ELSE @]
    /\ opts' = o
    /\ exported' = <<>>
    /\ budget' = [budget EXCEPT !.runs = @ + 1]
    /\ outdirExists' = TRUE
    /\ trace' = IF outdirExists THEN trace ELSE Append(trace, Ev("mkdir", "ok"))
    /\ prevManifest' = manifest
    /\ UNCHANGED <<variant, doc, files, manifest, tmpfile, hashVars, git, calls>>

\* (mutant) a stale file that cannot be removed ends the run
RemoveStaleFatal(ok) ==
    /\ pc = "planned"
    /\ todo.stale # <<>>
    /\ files' = IF ok /\ ~opts.dry_run /\ IsFile(files, Head(todo.stale))
                THEN Remove(files, Head(todo.stale)) ELSE files
    /\ todo' = [todo EXCEPT !.stale = Tail(@)]
    /\ trace' = IF opts.dry_run THEN trace
                ELSE Append(trace, Ev("rm", IF ok /\ IsFile(files, Head(todo.stale))
                                            THEN "ok" ELSE "failed"))
    /\ pc' = IF ok \/ opts.dry_run THEN pc ELSE "done"
    /\ exitCode' = IF ok \/ opts.dry_run THEN exitCode ELSE "exception"
    /\ UNCHANGED <<variant, doc, manifest, tmpfile, opts, plan, exported,
                   hist, budget, hashVars, outdirExists, git, calls, prevManifest>>

\* one iteration of `for p in stale`; os.remove may raise OSError, which is reported only
RemoveStale(ok) ==
    /\ pc = "planned"
    /\ todo.stale # <<>>
    /\ files' = IF ok /\ ~opts.dry_run /\ IsFile(files, Head(todo.stale))
                THEN Remove(files, Head(todo.stale)) ELSE files
    /\ todo' = [todo EXCEPT !.stale = Tail(@)]
    /\ trace' = IF opts.dry_run THEN trace
                ELSE Append(trace, Ev("rm", IF ok /\ IsFile(files, Head(todo.stale))
                                            THEN "ok" ELSE "failed"))
    /\ UNCHANGED <<variant, doc, manifest, tmpfile, pc, opts, plan, exported, exitCode,
                   hist, budget, hashVars, outdirExists, git, calls, prevManifest>>

\* do_export: if not to_export: return []
NothingToExport ==
    /\ pc = "planned"
    /\ variant = "script"
    /\ plan.to_export = <<>>
    /\ pc' = "done"
    /\ exitCode' = "ok"
    /\ hist' = [completed |-> TRUE, doc |-> doc, removed |-> {}]
    /\ UNCHANGED <<variant, doc, files, manifest, tmpfile, opts, plan, todo, exported,
                   budget, hashVars, sysVars>>

\* (mutant) the page number passed to drawio is the 0-based index
CmdLineZeroBased(page) == [p |-> page.idx, o |-> page.filename]

\* cmd = ["drawio", "-x", "-f", "svg", "-p", str(page_idx + 1), "-o", out_path, input_path]:
\* the page number and the file name of the output path
CmdLine(page) == [p |-> page.idx + 1, o |-> page.filename]

\* (mutant) a page that fails to render is skipped and the loop goes on
RenderKeepGoing(outcome) ==
    /\ pc = "planned"
    /\ todo.stale = <<>>
    /\ todo.pages # <<>>
    /\ LET page == Head(todo.pages)
       IN  /\ files' = IF outcome = "ok" /\ ~opts.dry_run
                        THEN Put(files, page.filename, plan.hashes[page.idx]) ELSE files
           /\ exported' = IF outcome = "ok" THEN Append(exported, page.filename) ELSE exported
           /\ trace' = IF opts.dry_run THEN trace ELSE Append(trace, Ev("drawio", outcome))
    /\ todo' = [todo EXCEPT !.pages = Tail(@)]
    /\ calls' = IF opts.dry_run THEN calls ELSE Append(calls, CmdLine(Head(todo.pages)))
    /\ UNCHANGED <<variant, doc, manifest, tmpfile, pc, exitCode, hist, opts, plan, budget,
                   hashVars, outdirExists, git, prevManifest>>

\* (mutant) the manifest is saved before the run ends on a renderer failure
RenderSavingOnFailure(outcome) ==
    /\ pc = "planned"
    /\ todo.stale = <<>>
    /\ todo.pages # <<>>
    /\ LET page == Head(todo.pages)
       IN  IF opts.dry_run
           THEN /\ outcome = "ok"
                /\ exported' = Append(exported, page.filename)
                /\ todo' = [todo EXCEPT !.pages = Tail(@)]
                /\ UNCHANGED <<files, manifest, pc, exitCode, hist, trace>>
           ELSE IF outcome = "ok"
           THEN /\ files' = Put(files, page.filename, plan.hashes[page.idx])
                /\ exported' = Append(exported, page.filename)
                /\ todo' = [todo EXCEPT !.pages = Tail(@)]
                /\ trace' = Append(trace, Ev("drawio", "ok"))
                /\ UNCHANGED <<manifest, pc, exitCode, hist>>
           ELSE /\ pc' = "done"
                /\ exitCode' = outcome
                /\ hist' = [hist EXCEPT !.removed = {}]
                /\ trace' = Append(trace, Ev("drawio", outcome))
                /\ manifest' = plan.new_manifest
                /\ UNCHANGED <<files, exported, todo>>
    /\ calls' = IF opts.dry_run THEN calls ELSE Append(calls, CmdLine(Head(todo.pages)))
    /\ UNCHANGED <<variant, doc, tmpfile, opts, plan, budget, hashVars,
                   outdirExists, git, prevManifest>>

\* one iteration of `for page_idx, filename in to_export`; outcome of the drawio process:
\* "ok", "not-found" (FileNotFoundError, exit 2), "failed" (CalledProcessError, exit 3)
Render(outcome) ==
    /\ pc = "planned"
    /\ todo.stale = <<>>
    /\ todo.pages # <<>>
    /\ LET page == Head(todo.pages)
       IN  IF opts.dry_run
           THEN /\ outcome = "ok"
                /\ exported' = Append(exported, page.filename)
                /\ todo' = [todo EXCEPT !.pages = Tail(@)]
                /\ UNCHANGED <<files, pc, exitCode, hist, trace>>
           ELSE IF outcome = "ok"
           THEN /\ files' = Put(files, page.filename, plan.hashes[page.idx])
                /\ exported' = Append(exported, page.filename)
                /\ todo' = [todo EXCEPT !.pages = Tail(@)]
                /\ trace' = Append(trace, Ev("drawio", "ok"))
                /\ UNCHANGED <<pc, exitCode, hist>>
           ELSE /\ pc' = "done"
                /\ exitCode' = outcome
                /\ hist' = [hist EXCEPT !.removed = {}]
                /\ trace' = Append(trace, Ev("drawio", outcome))
                /\ UNCHANGED <<files, exported, todo>>
    /\ calls' = IF opts.dry_run THEN calls ELSE Append(calls, CmdLine(Head(todo.pages)))
    /\ UNCHANGED <<variant, doc, manifest, tmpfile, opts, plan, budget, hashVars,
                   outdirExists, git, prevManifest>>

\* after the loops: dry run prints only; else save_manifest opens and writes path + ".tmp"
WriteTmp ==
    /\ pc = "planned"
    /\ todo = NoTodo
    /\ variant = "cli" \/ plan.to_export # <<>>
    /\ IF opts.dry_run
       THEN /\ pc' = "done"
            /\ exitCode' = "ok"
            /\ hist' = [hist EXCEPT !.removed = {}]
            /\ UNCHANGED <<tmpfile, trace>>
       ELSE /\ pc' = "replace"
            /\ tmpfile' = plan.new_manifest
            /\ trace' = Append(trace, Ev("write", "ok"))
            /\ UNCHANGED <<exitCode, hist>>
    /\ UNCHANGED <<variant, doc, files, manifest, opts, plan, todo, exported, budget, hashVars,
                   outdirExists, git, calls, prevManifest>>

\* save_manifest: os.replace(tmp, path); export_pages / do_export returns
Replace ==
    /\ pc = "replace"
    /\ manifest' = tmpfile
    /\ tmpfile' = NoFile
    /\ pc' = "done"
    /\ exitCode' = "ok"
    /\ hist' = [completed |-> TRUE, doc |-> doc, removed |-> {}]
    /\ trace' = Append(trace, Ev("replace", "ok"))
    /\ UNCHANGED <<variant, doc, files, opts, plan, todo, exported, budget, hashVars,
                   outdirExists, git, calls, prevManifest>>

\* main: `if exported: git_commit_and_push(...)` after do_export returned, in a repository
CommitDue == variant = "script" /\ git.repo /\ exitCode = "ok" /\ exported # <<>>

\* the process ends; its locals are gone
Return ==
    /\ \/ pc = "done" /\ ~CommitDue
       \/ pc = "exit"
    /\ pc' = "idle"
    /\ opts' = NoOpts
    /\ plan' = NoPlan
    /\ todo' = NoTodo
    /\ exported' = <<>>
    /\ exitCode' = "none"
    /\ trace' = <<>>
    /\ git' = NoGit
    /\ calls' = <<>>
    /\ prevManifest' = NoFile
    /\ UNCHANGED <<variant, doc, files, manifest, tmpfile, hist, budget, hashVars,
                   outdirExists>>

---------------------------------------------------------------------------
(* What happens to the files between runs *)

Outside ==
    /\ pc = "idle"
    /\ budget.env < MaxEnv
    /\ budget' = [budget EXCEPT !.env = @ + 1]
    /\ UNCHANGED <<variant, tmpfile, pc, opts, plan, todo, exported, exitCode, hashVars,
                   sysVars>>

\* the user renames tab i (1-based position in the file)
EditTitle(i, t) ==
    /\ Outside
    /\ doc.parses /\ i \in 1..Len(doc.diagrams)
    /\ doc' = [doc EXCEPT !.diagrams[i].attrib = SetAttr(@, sName, t)]
    /\ doc' # doc
    /\ UNCHANGED <<files, manifest, hist>>

\* the user edits the drawing of tab i
EditBody(i, b) ==
    /\ Outside
    /\ doc.parses /\ i \in 1..Len(doc.diagrams)
    /\ doc' = [doc EXCEPT !.diagrams[i].text = b]
    /\ doc' # doc
    /\ UNCHANGED <<files, manifest, hist>>

\* the user adds a tab at the end
AppendPage(p) ==
    /\ Outside
    /\ doc.parses /\ Len(doc.diagrams) < MaxPages
    /\ doc' = [doc EXCEPT !.diagrams = Append(@, p)]
    /\ UNCHANGED <<files, manifest, hist>>

\* the user deletes tab i
DeletePage(i) ==
    /\ Outside
    /\ doc.parses /\ i \in 1..Len(doc.diagrams)
    /\ doc' = [doc EXCEPT !.diagrams = RemoveAt(@, i)]
    /\ UNCHANGED <<files, manifest, hist>>

\* documents from which get_page_elements extracts no page
Pageless == {Doc(<<>>), Unparseable}

\* what the file can be overwritten with: an emptied or a damaged file
Rewritten == Pageless \cup {Undecodable}

\* the file is overwritten by one without pages
Rewrite(d) ==
    /\ Outside
    /\ doc' = d
    /\ doc' # doc
    /\ UNCHANGED <<files, manifest, hist>>

\* an SVG file is deleted from the output directory
DeleteOutput(f) ==
    /\ Outside
    /\ IsFile(files, f)
    /\ files' = Remove(files, f)
    /\ hist' = [hist EXCEPT !.removed = @ \cup {f}]
    /\ UNCHANGED <<doc, manifest>>

\* the manifest file is deleted
DeleteManifest ==
    /\ Outside
    /\ manifest.kind # "absent"
    /\ manifest' = NoFile
    /\ hist' = [hist EXCEPT !.completed = FALSE]
    /\ UNCHANGED <<doc, files>>

Next ==
    \/ \E o \in Options : Start(o)
    \/ \E ok \in BOOLEAN : RemoveStale(ok)
    \/ NothingToExport
    \/ \E outcome \in {"ok", "not-found", "failed"} : Render(outcome)
    \/ WriteTmp
    \/ Replace
    \/ Return
    \/ \E i \in 1..MaxPages, t \in EditTitles : EditTitle(i, t)
    \/ \E i \in 1..MaxPages, b \in Bodies : EditBody(i, b)
    \/ \E p \in SeedPages : AppendPage(p)
    \/ \E i \in 1..MaxPages : DeletePage(i)
    \/ \E d \in Rewritten : Rewrite(d)
    \/ \E f \in DOMAIN files : DeleteOutput(f)
    \/ DeleteManifest

Spec == Init /\ [][Next]_vars

---------------------------------------------------------------------------
(* The manifest file written by something else than save_manifest (an      *)
(* editor, a merge of the committed file, another tool).                   *)

AnEntry(key, type) == [key |-> key, type |-> type, filename |-> sIntro \o sSvg, hash |-> <<"x">>]

ForeignManifests ==
    { Garbage,                                                      \* not JSON
      Json("array", "missing", <<>>),                              \* []
      EmptyDict,                                                    \* {}
      Json("object", "array", <<>>),                               \* {"pages": []}
      Json("object", "object", <<AnEntry(<<"x">>, "object")>>),    \* {"pages": {"x": {...}}}
      Json("object", "object", <<AnEntry(<<"0">>, "string")>>) }   \* {"pages": {"0": "text"}}

OverwriteManifest(m) ==
    /\ Outside
    /\ manifest' = m
    /\ hist' = [hist EXCEPT !.completed = FALSE]
    /\ UNCHANGED <<doc, files>>

NextForeign ==
    \/ Next
    \/ \E m \in ForeignManifests : OverwriteManifest(m)

SpecForeign == Init /\ [][NextForeign]_vars

---------------------------------------------------------------------------
(* The process dies inside export_pages / do_export (killed, power of the  *)
(* python interpreter lost); os.replace is one atomic rename.               *)

\* what open(tmp, "w") and an unfinished json.dump leave behind
Partial == [kind |-> "partial", top |-> "none", pagesType |-> "missing", pages |-> <<>>]

\* (mutant) the save writes the manifest file itself
CrashInWriteInPlace ==
    /\ pc = "planned"
    /\ todo = NoTodo
    /\ ~opts.dry_run
    /\ variant = "cli" \/ plan.to_export # <<>>
    /\ manifest' = Partial
    /\ pc' = "done"
    /\ exitCode' = "crashed"
    /\ hist' = [hist EXCEPT !.removed = {}]
    /\ trace' = Append(trace, Ev("write", "crashed"))
    /\ UNCHANGED <<variant, doc, files, tmpfile, opts, plan, todo, exported, budget, hashVars,
                   outdirExists, git, calls, prevManifest>>

\* save_manifest dies after open(tmp, "w") and before json.dump has finished
CrashInWrite ==
    /\ pc = "planned"
    /\ todo = NoTodo
    /\ ~opts.dry_run
    /\ variant = "cli" \/ plan.to_export # <<>>
    /\ tmpfile' = Partial
    /\ pc' = "done"
    /\ exitCode' = "crashed"
    /\ hist' = [hist EXCEPT !.removed = {}]
    /\ trace' = Append(trace, Ev("write", "crashed"))
    /\ UNCHANGED <<variant, doc, files, manifest, opts, plan, todo, exported, budget, hashVars,
                   outdirExists, git, calls, prevManifest>>

\* the process dies between two steps: in the loops, or between the write and os.replace
Crash ==
    /\ pc \in {"planned", "replace"}
    /\ pc' = "done"
    /\ exitCode' = "crashed"
    /\ hist' = [hist EXCEPT !.removed = {}]
    /\ UNCHANGED <<variant, doc, files, manifest, tmpfile, opts, plan, todo, exported, budget,
                   hashVars, sysVars>>

NextCrash ==
    \/ Next
    \/ CrashInWrite
    \/ Crash

SpecCrash == Init /\ [][NextCrash]_vars

---------------------------------------------------------------------------
(* Version control: cli_export after export_pages, main around do_export   *)

\* the source document; the manifest file .drawio-export.<base>.json
sInput == <<"i", "n", ".", "d", "r", "a", "w", "i", "o">>

sBase == <<"i", "n">>

manifest_path(base) ==
    <<".", "d", "r", "a", "w", "i", "o", "-", "e", "x", "p", "o", "r", "t", ".">> \o base
        \o <<".", "j", "s", "o", "n">>

\* the status the process ends with
ExitStatus(c) ==
    CASE c = "ok" -> 0
      [] c = "exception" -> 1
      [] c = "not-found" -> 2
      [] c = "failed" -> 3
      [] c = "pull-failed" -> 4
      [] c = "git-error" -> 5

\* git_pull: "ok", "failed" (CalledProcessError), "skipped" (no branch could be determined).
\* cli: called after export_pages returned, unless --dry-run or --no-git or no repository
\* (the process then ends, see Return).  script: called first, when a repository is found.
git_pull(outcome) ==
    /\ budget.runs < MaxRuns \/ variant = "cli"
    /\ IF variant = "cli"
       THEN pc = "done" /\ exitCode = "ok" /\ ~opts.dry_run
       ELSE pc = "idle"
    /\ pc' = IF outcome = "failed" THEN "exit" ELSE IF variant = "cli" THEN "commit" ELSE "pulled"
    /\ exitCode' = IF outcome = "failed" THEN "pull-failed"
                   ELSE IF variant = "cli" THEN exitCode ELSE "running"
    /\ trace' = IF outcome = "skipped" THEN trace ELSE Append(trace, Ev("pull", outcome))
    /\ git' = [git EXCEPT !.repo = TRUE]
    /\ UNCHANGED <<variant, doc, files, manifest, tmpfile, opts, plan, todo, exported, hist,
                   budget, hashVars, outdirExists, calls, prevManifest>>

\* what `git add` and `git commit` did: the events added to the trace
CommitEvents(outcome) ==
    IF outcome = "add-failed" THEN <<Ev("add", "failed")>>
    ELSE <<Ev("add", "ok"),
           Ev("commit", IF outcome = "committed" THEN "ok"
                        ELSE IF outcome = "nothing" THEN "nothing" ELSE "failed")>>

\* (mutant) cli: push whenever asked to, committed or not
PushAfterAnyCommit(outcome, push) == push

\* cli_export: `if did_commit and push`
PushDue(outcome, push) == outcome = "committed" /\ push

\* cli: git_add_and_commit(exported, repo_root, git_message, drawio_file=input_path), then
\* `if did_commit and push`.  outcome: "add-failed" (CalledProcessError of git add),
\* "nothing" (commit returns non-zero, nothing to commit), "commit-failed" (commit returns
\* non-zero for another reason), "committed".  push: the --push flag.
git_add_and_commit(outcome, push) ==
    /\ pc = "commit"
    /\ variant = "cli"
    /\ git' = [git EXCEPT !.staged = IF outcome = "add-failed" THEN {}
                                      ELSE {exported[i] : i \in 1..Len(exported)} \cup {sInput},
                          !.push = push]
    /\ trace' = trace \o CommitEvents(outcome)
    /\ pc' = IF PushDue(outcome, push) THEN "push" ELSE "exit"
    /\ UNCHANGED <<variant, doc, files, manifest, tmpfile, opts, plan, todo, exported, exitCode,
                   hist, budget, hashVars, outdirExists, calls, prevManifest>>

\* script: git_commit_and_push(exported, input_file, repo_root) up to the commit; the push
\* that follows in the same function is git_push below
git_commit_and_push(outcome) ==
    /\ pc = "done"
    /\ CommitDue
    /\ git' = [git EXCEPT !.staged =
                  IF outcome = "add-failed" THEN {}
                  ELSE {exported[i] : i \in 1..Len(exported)} \cup {sInput}
                       \cup (IF manifest.kind # "absent" THEN {manifest_path(sBase)} ELSE {}),
                          !.push = TRUE]
    /\ trace' = trace \o CommitEvents(outcome)
    /\ pc' = IF outcome = "add-failed" THEN "exit"
             ELSE IF outcome = "committed" THEN "push" ELSE "exit"
    /\ exitCode' = IF outcome = "add-failed" THEN "git-error" ELSE exitCode
    /\ UNCHANGED <<variant, doc, files, manifest, tmpfile, opts, plan, todo, exported,
                   hist, budget, hashVars, outdirExists, calls, prevManifest>>

\* git_push (cli) / the push of git_commit_and_push (script): "ok", "failed", "skipped"
\* (no branch).  cli reports a failed push and ends normally; script exits with 5.
git_push(outcome) ==
    /\ pc = "push"
    /\ pc' = "exit"
    /\ trace' = IF outcome = "skipped" THEN trace ELSE Append(trace, Ev("push", outcome))
    /\ exitCode' = IF outcome = "failed" /\ variant = "script" THEN "git-error" ELSE exitCode
    /\ UNCHANGED <<variant, doc, files, manifest, tmpfile, opts, plan, todo, exported,
                   hist, budget, hashVars, outdirExists, git, calls, prevManifest>>

CommitOutcomes == {"add-failed", "nothing", "commit-failed", "committed"}

NextGit ==
    \/ Next
    \/ \E outcome \in {"ok", "failed", "skipped"} : git_pull(outcome)
    \/ \E outcome \in CommitOutcomes, push \in BOOLEAN : git_add_and_commit(outcome, push)
    \/ \E outcome \in CommitOutcomes : git_commit_and_push(outcome)
    \/ \E outcome \in {"ok", "failed", "skipped"} : git_push(outcome)

SpecGit == Init /\ [][NextGit]_vars

---------------------------------------------------------------------------
(* Filename assignment on its own: plan_pages over documents with          *)
(* duplicate, empty, blank, forbidden-character and already-numbered       *)
(* titles.                                                                 *)

NameTitles == { <<>>, <<" ">>, <<"A">>, <<"a">>, <<"A", " ", "(", "1", ")">>,
                <<"A", "/">>, <<"A", ":">> }

NamePages == {Diagram(t, <<"x">>) : t \in NameTitles} \cup {Unnamed(<<"x">>)}

NameDocs == {Doc(ds) : ds \in SeqsUpTo(NamePages, MaxTitles)} \cup {Unparseable}

InitNames ==
    /\ InitRun
    /\ InitHash
    /\ doc \in NameDocs

PlanOnly ==
    /\ pc = "idle"
    /\ \E pp \in {plan_pages(doc, variant)} :
          plan' = [NoPlan EXCEPT !.file_specs = pp.file_specs, !.hashes = pp.hashes]
    /\ pc' = "named"
    /\ UNCHANGED <<variant, doc, files, manifest, tmpfile, opts, todo, exported, exitCode,
                   hist, budget, hashVars, sysVars>>

NextNames == PlanOnly

SpecNames == InitNames /\ [][NextNames]_vars

---------------------------------------------------------------------------
(* page_hash on its own: a page element with up to MaxChildren children,   *)
(* and one edit of it.                                                      *)

HashStrings == { <<>>, <<"a">>, <<"b">> }

HashLeaves ==
    { Elem(<<"a">>, <<>>, <<>>, <<>>, <<>>),
      Elem(<<"a">>, <<>>, <<"a">>, <<>>, <<>>),
      Elem(<<"b">>, <<>>, <<>>, <<>>, <<>>),
      Elem(<<"a">>, << <<<<"a">>, <<"b">>>>, <<<<"b">>, <<"a">>>> >>, <<>>, <<>>, <<>>),
      Elem(<<"a">>, << <<<<"b">>, <<"a">>>>, <<<<"a">>, <<"b">>>> >>, <<>>, <<>>, <<>>),
      Elem(<<"a">>, << <<<<"a">>, <<"a">>>> >>, <<>>, <<>>, <<>>),
      Elem(<<"b">>, <<>>, <<"a">>, <<>>, <<"b">>),
      Elem(<<"a">>, <<>>, <<>>, <<>>, <<"a">>) }

HashRoots ==
    { Elem(sDiagram, at, tx, ch, <<>>) :
        at \in { <<>>, << <<sName, <<"a">>>>, <<<<"a">>, <<"b">>>> >> },
        tx \in { <<>>, <<"a">> },
        ch \in SeqsUpTo(HashLeaves, MaxChildren) }

InitHashStudy ==
    /\ InitRun
    /\ doc = Unparseable
    /\ elem \in HashRoots
    /\ elemPrev = elem
    /\ lastEdit = "none"

\* node p of the element: 0 is the page element itself, p > 0 its p-th child
NodeAt(e, p) == IF p = 0 THEN e ELSE e.children[p]

WithNode(e, p, n) == IF p = 0 THEN n ELSE [e EXCEPT !.children[p] = n]

Edited(kind, e) ==
    /\ lastEdit = "none"
    /\ e # elem
    /\ elem' = e
    /\ elemPrev' = elem
    /\ lastEdit' = kind
    /\ UNCHANGED <<doc, runVars>>

\* the value of the j-th attribute of node p becomes v
EditAttrValue(p, j, v) ==
    /\ p <= Len(elem.children) /\ j <= Len(NodeAt(elem, p).attrib)
    /\ LET n == NodeAt(elem, p)
       IN  Edited("attr", WithNode(elem, p, [n EXCEPT !.attrib[j] = <<@[1], v>>]))

\* the text of node p becomes t
EditText(p, t) ==
    /\ p <= Len(elem.children)
    /\ Edited("text", WithNode(elem, p, [NodeAt(elem, p) EXCEPT !.text = t]))

\* the text after child p (its tail) becomes t
EditTail(p, t) ==
    /\ p <= Len(elem.children)
    /\ Edited("text", WithNode(elem, p, [NodeAt(elem, p) EXCEPT !.tail = t]))

\* children i and j of the page element change places
SwapChildren(i, j) ==
    /\ i < j /\ j <= Len(elem.children)
    /\ Edited("children", [elem EXCEPT !.children[i] = elem.children[j],
                                        !.children[j] = elem.children[i]])

Reverse(seq) == [i \in 1..Len(seq) |-> seq[Len(seq) + 1 - i]]

\* the attributes of node p are written in the opposite order
ReorderAttrs(p) ==
    /\ p <= Len(elem.children)
    /\ Edited("attrorder", WithNode(elem, p, [NodeAt(elem, p) EXCEPT !.attrib = Reverse(@)]))

NextHash ==
    \/ \E p \in 0..MaxChildren, j \in 1..2, v \in HashStrings : EditAttrValue(p, j, v)
    \/ \E p \in 0..MaxChildren, t \in HashStrings : EditText(p, t)
    \/ \E p \in 1..MaxChildren, t \in HashStrings : EditTail(p, t)
    \/ \E i \in 1..MaxChildren, j \in 1..MaxChildren : SwapChildren(i, j)
    \/ \E p \in 0..MaxChildren : ReorderAttrs(p)

SpecHash == InitHashStudy /\ [][NextHash]_vars

---------------------------------------------------------------------------
(* Claims *)

StartsWith(s, prefix) == Len(s) >= Len(prefix) /\ SubSeq(s, 1, Len(prefix)) = prefix

EndsWith(s, suffix) ==
    Len(s) >= Len(suffix) /\ SubSeq(s, Len(s) - Len(suffix) + 1, Len(s)) = suffix

CurrentTitles == TitlesOf(get_page_elements(doc))

\* C1: plan_pages returns one filename per title, in the order of the titles (entry i has
\* page index i-1 and a name that starts with the sanitized i-th title), every filename
\* ends in ".svg", and the filenames of one run are pairwise distinct.
C1_FilenamesDistinct ==
    pc = "named" =>
        /\ Len(plan.file_specs) = Len(CurrentTitles)
        /\ \A i \in 1..Len(plan.file_specs) :
              /\ plan.file_specs[i].idx = i - 1
              /\ StartsWith(plan.file_specs[i].filename, sanitize(CurrentTitles[i]))
              /\ EndsWith(plan.file_specs[i].filename, sSvg)
        /\ \A i, j \in 1..Len(plan.file_specs) :
              i # j => plan.file_specs[i].filename # plan.file_specs[j].filename

\* C1 witness: a planned document of three pages whose sanitized titles are all the same
C1_Witness ==
    /\ pc = "named"
    /\ Len(plan.file_specs) = 3
    /\ \A i \in 1..3 : sanitize(CurrentTitles[i]) = sanitize(CurrentTitles[1])
    /\ plan.file_specs[3].filename # plan.file_specs[1].filename

HashChanged == \A v \in {"cli", "script"} : page_hash(elem, v) # page_hash(elemPrev, v)

HashSame == \A v \in {"cli", "script"} : page_hash(elem, v) = page_hash(elemPrev, v)

\* C8: changing the value of an attribute, a text (or tail), or the order of the children
\* of a node changes the bytes page_hash feeds to the hash.
C8_Sensitive == lastEdit \in {"attr", "text", "children"} => HashChanged

\* C9: writing the attributes of a node in another order leaves the fingerprint of the
\* page unchanged.
C9_AttrOrderNormalised == lastEdit = "attrorder" => HashSame

\* C9 witness: a page whose attribute order was changed, with the same fingerprint
C9_Witness == lastEdit = "attrorder" /\ elem # elemPrev /\ HashSame

---------------------------------------------------------------------------
(* Claims about a run *)

\* the state right after incremental_selection / determine_exports returned
JustPlanned ==
    pc = "planned" /\ todo.stale = plan.stale /\ todo.pages = plan.to_export /\ exported = <<>>

Range(seq) == {seq[i] : i \in 1..Len(seq)}

Pages == 1..Len(plan.file_specs)

IsSelected(i) == plan.file_specs[i] \in Range(plan.to_export)

CurrentFilenames == {plan.file_specs[i].filename : i \in Pages}

CurrentIndices == {plan.file_specs[i].idx : i \in Pages}

\* what the manifest file records, read off the file: its entries, and the one for an index
Recorded == IF manifest.kind = "json" THEN Range(manifest.pages) ELSE {}

RecordedFor(idx) == {e \in Recorded : e.key = IntToStr(idx)}

AllOutputsPresent == \A i \in Pages : IsFile(files, plan.file_specs[i].filename)

\* C2: a completed run followed by a run on the unchanged document, with the manifest
\* untouched, every expected output file present and --full not given, selects no page.
C2_IdempotentNoOp ==
    (JustPlanned /\ hist.completed /\ doc = hist.doc /\ ~opts.full /\ AllOutputsPresent)
        => plan.to_export = <<>>

\* C2 witness: the second run on an unchanged document of two or more pages selects nothing
C2_Witness ==
    /\ JustPlanned /\ hist.completed /\ doc = hist.doc /\ ~opts.full /\ AllOutputsPresent
    /\ Len(plan.file_specs) >= 2
    /\ plan.to_export = <<>>

\* the five conditions of the selection rule for page i, read off the manifest file and the disk
SelectionRule(i) ==
    LET spec == plan.file_specs[i]
    IN  \/ opts.full
        \/ RecordedFor(spec.idx) = {}
        \/ \E e \in RecordedFor(spec.idx) : e.hash # plan.hashes[spec.idx]
        \/ \E e \in RecordedFor(spec.idx) : e.filename # spec.filename
        \/ ~IsFile(files, spec.filename)

\* C3: a page is selected for export exactly when --full is given, or the manifest has no
\* entry for its index, or its fingerprint or its filename differs from the recorded one, or
\* its output file does not exist.
C3_SelectionRule == JustPlanned => \A i \in Pages : IsSelected(i) <=> SelectionRule(i)

\* C3 witness: one page is selected only because its filename changed (entry recorded, same
\* fingerprint, file present), and another page of the same run is not selected
C3_Witness ==
    /\ JustPlanned /\ ~opts.full
    /\ \E i \in Pages :
          /\ IsSelected(i)
          /\ IsFile(files, plan.file_specs[i].filename)
          /\ \E e \in RecordedFor(plan.file_specs[i].idx) :
                e.hash = plan.hashes[plan.file_specs[i].idx] /\ e.filename # plan.file_specs[i].filename
    /\ \E j \in Pages : ~IsSelected(j)

\* C4: a page whose output file is missing at the start of a run (deleted from outside since
\* the last run) is selected for export, also when its fingerprint and filename are unchanged.
C4_SelfHealing ==
    JustPlanned => \A i \in Pages : ~IsFile(files, plan.file_specs[i].filename) => IsSelected(i)

\* C4 witness: a page with a recorded entry, unchanged fingerprint and filename, whose file
\* was deleted from outside, is selected
C4_Witness ==
    /\ JustPlanned /\ ~opts.full
    /\ \E i \in Pages :
          /\ plan.file_specs[i].filename \in hist.removed
          /\ \E e \in RecordedFor(plan.file_specs[i].idx) :
                e.hash = plan.hashes[plan.file_specs[i].idx] /\ e.filename = plan.file_specs[i].filename
          /\ IsSelected(i)

\* the page at position i is the page the last completed run saw, but for its name attribute
TitleOnlyChange(i) ==
    /\ hist.completed /\ doc.parses /\ hist.doc.parses
    /\ Len(doc.diagrams) = Len(hist.doc.diagrams)
    /\ i \in 1..Len(doc.diagrams)
    /\ \A j \in 1..Len(doc.diagrams) : j # i => doc.diagrams[j] = hist.doc.diagrams[j]
    /\ doc.diagrams[i] # hist.doc.diagrams[i]
    /\ AttrHas(doc.diagrams[i].attrib, sName)
    /\ doc.diagrams[i] = [hist.doc.diagrams[i] EXCEPT
                             !.attrib = SetAttr(@, sName, AttrGet(doc.diagrams[i].attrib, sName))]

\* the filenames the last completed run assigned
OldSpecs == plan_pages(hist.doc, variant).file_specs

\* C5 as stated: after a completed run, changing only the title of one page gives the page a
\* new filename, selects it for export, and with clean-up puts its old filename in the stale set.
C5_RenameDetection ==
    JustPlanned =>
        \A i \in Pages : TitleOnlyChange(i) =>
            /\ plan.file_specs[i].filename # OldSpecs[i].filename
            /\ IsSelected(i)
            /\ opts.clean => OldSpecs[i].filename \in Range(plan.stale)

\* C5 amended: after a completed run, changing only the title of one page selects the page
\* for export (whether or not its filename changes); its old filename is in the stale set
\* exactly when clean-up is requested, no page of the document is now assigned that filename
\* and the old file still exists.
C5_RenameSelected ==
    JustPlanned =>
        \A i \in Pages : TitleOnlyChange(i) =>
            /\ IsSelected(i)
            /\ OldSpecs[i].filename \in Range(plan.stale)
                  <=> (opts.clean /\ OldSpecs[i].filename \notin CurrentFilenames
                       /\ IsFile(files, OldSpecs[i].filename))

\* C5 witness: a renamed page keeps its filename, its file is present, and it is selected
C5_Witness ==
    /\ JustPlanned /\ ~opts.full
    /\ \E i \in Pages :
          /\ TitleOnlyChange(i)
          /\ plan.file_specs[i].filename = OldSpecs[i].filename
          /\ IsFile(files, plan.file_specs[i].filename)
          /\ IsSelected(i)

\* recorded entries whose index is no page of the document or whose filename is assigned to no page
Outdated ==
    {e \in Recorded : StrToInt(e.key) \notin CurrentIndices \/ e.filename \notin CurrentFilenames}

\* C6 as stated: with clean-up the stale set is exactly the filenames of the outdated recorded
\* entries; without clean-up it is empty.
C6_StaleExact ==
    JustPlanned =>
        Range(plan.stale) = IF opts.clean THEN {e.filename : e \in Outdated} ELSE {}

\* C6 amended: with clean-up the stale set is exactly the filenames of the outdated recorded
\* entries whose file exists on disk; without clean-up it is empty.
C6_StaleExactExisting ==
    JustPlanned =>
        Range(plan.stale) =
            IF opts.clean THEN {e.filename : e \in {o \in Outdated : IsFile(files, o.filename)}}
            ELSE {}

\* C6 witness: clean-up leaves out an outdated entry whose file is gone
C6_Witness ==
    /\ JustPlanned /\ opts.clean
    /\ \E e \in Outdated : ~IsFile(files, e.filename) /\ e.filename \notin Range(plan.stale)

\* the document is the one the last completed run saw, without its last page
LastPageRemoved ==
    /\ hist.completed /\ doc.parses /\ hist.doc.parses
    /\ Len(hist.doc.diagrams) >= 1
    /\ doc.diagrams = SubSeq(hist.doc.diagrams, 1, Len(hist.doc.diagrams) - 1)

RemovedFile == OldSpecs[Len(OldSpecs)].filename

\* C7 as stated: after a completed run, deleting the last page (the others unchanged, their
\* files present, --full not given) makes the next run select no page, and with clean-up the
\* removed page's file is in the stale set.
C7_LastPageRemoved ==
    (JustPlanned /\ LastPageRemoved /\ ~opts.full
       /\ \A i \in 1..Len(doc.diagrams) : IsFile(files, OldSpecs[i].filename))
        => /\ plan.to_export = <<>>
           /\ opts.clean => RemovedFile \in Range(plan.stale)

\* C7 amended: the same for a document that keeps at least one page, the removed page's file
\* being in the stale set if it still exists.
C7_LastOfSeveralRemoved ==
    (JustPlanned /\ LastPageRemoved /\ ~opts.full /\ Len(hist.doc.diagrams) >= 2
       /\ \A i \in 1..Len(doc.diagrams) : IsFile(files, OldSpecs[i].filename))
        => /\ plan.to_export = <<>>
           /\ (opts.clean /\ IsFile(files, RemovedFile)) => RemovedFile \in Range(plan.stale)

\* C7 witness: Intro, Intro, Results after Results was deleted: nothing to export, and
\* Results.svg is stale
C7_Witness ==
    /\ JustPlanned /\ LastPageRemoved /\ ~opts.full /\ opts.clean
    /\ [i \in 1..Len(OldSpecs) |-> OldSpecs[i].filename]
          = << sIntro \o sSvg, Numbered(sIntro, 1) \o sSvg, sResults \o sSvg >>
    /\ plan.to_export = <<>>
    /\ plan.stale = << sResults \o sSvg >>

\* the manifest file is not one save_manifest wrote
Foreign == manifest \in ForeignManifests

\* C10: whatever the manifest file holds, no run dies of it, and a run that finds a manifest
\* that is absent, unparseable or not of the expected shape selects every page.
C10_ManifestNeverFatal ==
    /\ ParseRaises(doc) \/ exitCode # "exception"
    /\ (JustPlanned /\ (Foreign \/ manifest = NoFile)) => \A i \in Pages : IsSelected(i)

\* C11: while a run is in progress (crashes included) the manifest file changes in one step
\* only, from what it was to the complete new manifest of the run; it never holds a
\* partly written manifest.  The partial content is only ever in the .tmp sibling.
C11_AtomicSave ==
    /\ [](manifest.kind # "partial")
    /\ [][pc # "idle" =>
             \/ manifest' = manifest
             \/ /\ manifest' = plan.new_manifest
                /\ manifest'.kind = "json"
                /\ tmpfile = plan.new_manifest]_vars

\* C11 witness: a run died while writing the temporary file; the manifest is still the
\* complete manifest of the run before, which differs from the one being saved
C11_Witness ==
    /\ exitCode = "crashed"
    /\ tmpfile = Partial
    /\ hist.completed
    /\ manifest = Dump(NewPages(plan_pages(hist.doc, variant)))
    /\ manifest # plan.new_manifest

\* the run in progress has come to its end normally, was not a dry run, and no renderer failed
CompletedForReal == pc = "done" /\ exitCode = "ok" /\ ~opts.dry_run

\* C12: after a run that completes without dry-run and without a renderer failure (a run
\* that selected no page included) the manifest file holds exactly one entry per page of
\* the run's document: index -> the run's filename and fingerprint, and nothing else.
C12_ManifestReflectsRun ==
    CompletedForReal =>
        /\ manifest.kind = "json"
        /\ manifest.top = "object" /\ manifest.pagesType = "object"
        /\ Range(manifest.pages) = Range(NewPages(plan))
        /\ Len(manifest.pages) = Len(plan.file_specs)

\* positions of the trace at which the renderer was run
DrawioCalls == {i \in 1..Len(trace) : trace[i][1] = "drawio"}

RendererStopped == exitCode \in {"not-found", "failed"}

\* C13: a renderer call that fails is the last thing the run does: the run is over with
\* exit 3 (renderer failed) or exit 2 (renderer not found), the failing page was tried once,
\* no later selected page was tried, and every file rendered before is on disk with the
\* content rendered in this run.
C13_RendererFatal ==
    /\ \A i \in DrawioCalls :
          trace[i][2] # "ok" =>
              /\ i = Len(trace)
              /\ pc = "done"
              /\ exitCode = trace[i][2]
    /\ RendererStopped =>
          /\ pc = "done"
          /\ trace # <<>> /\ trace[Len(trace)] = Ev("drawio", exitCode)
          /\ ExitStatus(exitCode) = IF exitCode = "failed" THEN 3 ELSE 2
          /\ Cardinality(DrawioCalls) = Len(exported) + 1
          /\ Len(exported) + Len(todo.pages) = Len(plan.to_export)
          /\ \A k \in 1..Len(exported) :
                /\ exported[k] = plan.to_export[k].filename
                /\ IsFile(files, exported[k])
                /\ files[exported[k]] = plan.hashes[plan.to_export[k].idx]

\* C13 witness: the renderer failed on the second of three selected pages
C13_Witness ==
    /\ exitCode = "failed"
    /\ Len(exported) = 1
    /\ Len(todo.pages) = 2
    /\ IsFile(files, exported[1])

\* the process has ended (its exit status is final)
AtEnd == pc = "exit" \/ (pc = "done" /\ ~CommitDue /\ ~ENABLED git_pull("ok"))

FailureKinds ==
    {"renderer-not-found", "renderer-failed", "vcs-pull-failed", "vcs-push-failed",
     "vcs-commit-error"}

\* the failure condition an entry of the trace stands for ("none": not an external failure)
FailureOf(e) ==
    CASE e = Ev("drawio", "not-found") -> "renderer-not-found"
      [] e = Ev("drawio", "failed") -> "renderer-failed"
      [] e = Ev("pull", "failed") -> "vcs-pull-failed"
      [] e = Ev("push", "failed") -> "vcs-push-failed"
      [] e \in {Ev("add", "failed"), Ev("commit", "failed")} -> "vcs-commit-error"
      [] OTHER -> "none"

\* the exit status each script gives a failure condition (0: the process ends normally)
StatusAfter(v, kind) ==
    CASE kind = "renderer-not-found" -> 2
      [] kind = "renderer-failed" -> 3
      [] kind = "vcs-pull-failed" -> 4
      [] kind = "vcs-push-failed" -> IF v = "cli" THEN 0 ELSE 5
      [] kind = "vcs-commit-error" -> IF v = "cli" THEN 0 ELSE 5

Failures == {FailureOf(trace[i]) : i \in 1..Len(trace)} \ {"none"}

\* C14: a run in which an external process failed ends with a status that is not success
\* and that no other failure condition ends with.
C14_DistinctFailures ==
    AtEnd =>
        \A k \in Failures :
            /\ ExitStatus(exitCode) # 0
            /\ \A other \in FailureKinds \ {k} : StatusAfter(variant, other) # ExitStatus(exitCode)

\* the table StatusAfter is the one the model's actions follow (commit returning non-zero is
\* taken for "nothing to commit" by both scripts)
StatusTableAgrees ==
    AtEnd =>
        \A k \in Failures :
            ExitStatus(exitCode) =
                IF Ev("commit", "failed") \in Range(trace) THEN 0 ELSE StatusAfter(variant, k)

\* what an export does to the disk: deleting a stale file, rendering a page, writing the manifest
ExportOps == {"rm", "drawio", "write", "replace"}

\* C15: in a run that pulls, the pull comes before every export action of the run: no stale
\* file is deleted, no page rendered and no manifest written before the pull.
C15_PullFirst ==
    \A i \in 1..Len(trace) :
        trace[i][1] = "pull" => \A j \in 1..(i - 1) : trace[j][1] \notin ExportOps

Staged == Ev("add", "ok") \in Range(trace)

\* C16: what a run stages is exactly the files it exported, the source document and the
\* manifest file.
C16_StagedExactly ==
    Staged => git.staged = Range(exported) \cup {sInput, manifest_path(sBase)}

Committed == Ev("commit", "ok") \in Range(trace)

\* C17: a commit step that finds nothing to commit is the last thing the run does, and the
\* run ends normally (status 0) without a push; a push is attempted only after the commit of
\* the same run succeeded and, in the cli variant, only when --push was given.
C17_PushOnlyAfterCommit ==
    /\ \A i \in 1..Len(trace) :
          trace[i] = Ev("commit", "nothing") =>
              /\ i = Len(trace)
              /\ pc = "exit"
              /\ ExitStatus(exitCode) = 0
    /\ (pc = "push" \/ \E i \in 1..Len(trace) : trace[i][1] = "push") =>
          /\ Committed
          /\ variant = "cli" => git.push
    /\ \A i \in 1..Len(trace) :
          trace[i][1] = "push" => \E j \in 1..(i - 1) : trace[j] = Ev("commit", "ok")

\* C17 witness: the cli variant was asked to push and found nothing to commit
C17_Witness ==
    /\ variant = "cli"
    /\ git.push
    /\ trace # <<>> /\ trace[Len(trace)] = Ev("commit", "nothing")
    /\ pc = "exit"

\* C18: a dry run does nothing to the disk and runs no program: nothing is in its trace
\* (no directory created, no stale file deleted, no renderer call, no manifest written, no
\* git operation).
C18_DryRunNoEffect ==
    opts.dry_run => trace = <<>>

\* the run before this one completed on a document without pages, and the manifest it
\* left has not been removed since: the synthetic page is on record
SyntheticRecorded == hist.completed /\ hist.doc \in Pageless

SyntheticFile == plan.file_specs[1].filename

\* C19 (as stated): once the synthetic page of a document without pages is on record, a later
\* run on a document that still has no pages selects it only if its manifest entry is
\* absent or its output file is missing.
C19_FallbackStable ==
    (JustPlanned /\ doc \in Pageless /\ SyntheticRecorded) =>
        (IsSelected(1) => (RecordedFor(0) = {} \/ ~IsFile(files, SyntheticFile)))

\* C19 (amended): ... selects it exactly when its output file is missing, provided a full
\* export is not forced; its entry is on record with the constant fingerprint.
C19_FallbackStableUnlessFull ==
    (JustPlanned /\ doc \in Pageless /\ SyntheticRecorded /\ ~opts.full) =>
        /\ \E e \in RecordedFor(0) : e.hash = sFallback /\ e.filename = SyntheticFile
        /\ plan.hashes[0] = sFallback
        /\ IsSelected(1) <=> ~IsFile(files, SyntheticFile)

\* C19 witness: the synthetic page is on record, the file has changed since (emptied file
\* against damaged file) and a run without --full, with the output present, leaves it alone
C19_Witness ==
    /\ JustPlanned /\ doc \in Pageless /\ SyntheticRecorded /\ ~opts.full
    /\ doc # hist.doc
    /\ IsFile(files, SyntheticFile)
    /\ plan.to_export = <<>>

sPage1 == <<"P", "a", "g", "e", " ", "1">>

\* C20: a run on a source document that cannot be parsed, or that has no page element, does
\* not fail for that reason: it plans exactly one page, with index 0, title "Page 1" and
\* filename "Page 1.svg".
C20_PagelessIsOnePage ==
    (pc \in {"planned", "replace", "done"} /\ (~doc.parses \/ doc.diagrams = <<>>)) =>
        /\ ~plan.raised
        /\ exitCode # "exception"
        /\ TitlesOf(get_page_elements(doc)) = <<sPage1>>
        /\ plan.file_specs = << [idx |-> 0, filename |-> sPage1 \o sSvg] >>
        /\ DOMAIN plan.hashes = {0}

\* C20 witness: a file that is not well-formed XML has been planned as the page "Page 1.svg"
\* and that page is selected for export
C20_Witness ==
    /\ JustPlanned
    /\ doc = Unparseable
    /\ plan.to_export = << [idx |-> 0, filename |-> sPage1 \o sSvg] >>

\* positions of the trace at which a stale file was to be removed
RmCalls == {i \in 1..Len(trace) : trace[i][1] = "rm"}

RmFailed == Ev("rm", "failed") \in Range(trace)

\* C21: a stale file that cannot be deleted does not end the run: after the failure the run
\* is still in progress, every stale file of the plan is attempted once, and a run that
\* comes to its end has rendered every selected page and written the manifest.
C21_StaleFailureNotFatal ==
    (pc \in {"planned", "replace", "done"} /\ ~plan.raised /\ ~opts.dry_run) =>
        /\ (trace # <<>> /\ trace[Len(trace)] = Ev("rm", "failed")) => pc = "planned"
        /\ Cardinality(RmCalls) + Len(todo.stale) = Len(plan.stale)
        /\ (RmFailed /\ pc = "done" /\ ~RendererStopped) =>
              /\ exitCode = "ok"
              /\ todo = NoTodo
              /\ Len(exported) = Len(plan.to_export)
              /\ Cardinality(DrawioCalls) = Len(plan.to_export)
              /\ manifest = plan.new_manifest
              /\ trace[Len(trace)] = Ev("replace", "ok")

\* C21 witness: the first of two stale files could not be deleted, the second was deleted,
\* a page was rendered and the manifest was written
C21_Witness ==
    /\ pc = "done" /\ exitCode = "ok"
    /\ Len(plan.stale) = 2
    /\ \E i, j \in RmCalls : i < j /\ trace[i] = Ev("rm", "failed") /\ trace[j] = Ev("rm", "ok")
    /\ IsFile(files, plan.stale[1]) /\ ~IsFile(files, plan.stale[2])
    /\ exported # <<>>
    /\ manifest = plan.new_manifest

\* the name given to the i-th title: its filename without ".svg"
PlannedName(i) ==
    SubSeq(plan.file_specs[i].filename, 1, Len(plan.file_specs[i].filename) - Len(sSvg))

AssignedBefore(i) == {PlannedName(j) : j \in 1..(i - 1)}

\* C22: in document order, a title whose sanitized base name is not yet assigned gets the
\* base name; otherwise it gets "Base (n)" for the smallest n >= 1 whose name is not yet
\* assigned.  Only the titles of this run enter.
C22_DedupRule ==
    pc = "named" =>
        \A i \in 1..Len(plan.file_specs) :
            LET base == sanitize(CurrentTitles[i])
            IN  IF base \notin AssignedBefore(i)
                THEN PlannedName(i) = base
                ELSE \E n \in 1..Len(plan.file_specs) :
                        /\ PlannedName(i) = Numbered(base, n)
                        /\ Numbered(base, n) \notin AssignedBefore(i)
                        /\ \A k \in 1..(n - 1) : Numbered(base, k) \in AssignedBefore(i)

\* C22 witness: titles "A (1)", "A", "A": the third gets "A (2)" because "A (1)" is taken
C22_Witness ==
    /\ pc = "named"
    /\ CurrentTitles = << <<"A", " ", "(", "1", ")">>, <<"A">>, <<"A">> >>
    /\ PlannedName(3) = <<"A", " ", "(", "2", ")">>

\* the title of the i-th tab as the file has it: its name attribute, empty when there is none
RawTitle(i) ==
    LET d == get_page_elements(doc)[i]
    IN  IF AttrHas(d.attrib, sName) THEN AttrGet(d.attrib, sName) ELSE <<>>

\* nothing but whitespace (the empty title included)
Blank(s) == \A k \in 1..Len(s) : s[k] \in Whitespace

UntitledNames == {sUntitled} \cup {Numbered(sUntitled, n) : n \in 1..MaxTitles}

HasPages == get_page_elements(doc) # <<>>

\* C23 (as stated): a page whose title is empty or whitespace-only gets the base name
\* "Untitled"; a document whose titles are all such gets Untitled, Untitled (1), ...
C23_EmptyIsUntitled ==
    (pc = "named" /\ HasPages) =>
        /\ \A i \in 1..Len(plan.file_specs) :
              Blank(RawTitle(i)) => PlannedName(i) \in UntitledNames
        /\ (\A i \in 1..Len(plan.file_specs) : Blank(RawTitle(i))) =>
              \A i \in 1..Len(plan.file_specs) :
                  PlannedName(i) = IF i = 1 THEN sUntitled ELSE Numbered(sUntitled, i - 1)

\* C23 (amended): a page whose title is not empty but whitespace-only gets the base name
\* "Untitled", and a document whose titles are all such gets Untitled, Untitled (1), ...;
\* a page whose title is empty or missing is titled "Page <index + 1>".
C23_BlankIsUntitled ==
    (pc = "named" /\ HasPages) =>
        /\ \A i \in 1..Len(plan.file_specs) :
              /\ (RawTitle(i) # <<>> /\ Blank(RawTitle(i))) => PlannedName(i) \in UntitledNames
              /\ RawTitle(i) = <<>> =>
                    /\ CurrentTitles[i] = sPage \o IntToStr(i)
                    /\ StartsWith(PlannedName(i), sPage \o IntToStr(i))
        /\ (\A i \in 1..Len(plan.file_specs) : RawTitle(i) # <<>> /\ Blank(RawTitle(i))) =>
              \A i \in 1..Len(plan.file_specs) :
                  PlannedName(i) = IF i = 1 THEN sUntitled ELSE Numbered(sUntitled, i - 1)

\* C23 witness: three tabs titled " " planned as Untitled, Untitled (1), Untitled (2)
C23_Witness ==
    /\ pc = "named"
    /\ Len(plan.file_specs) = 3
    /\ \A i \in 1..3 : RawTitle(i) = <<" ">>
    /\ PlannedName(3) = Numbered(sUntitled, 2)

\* the command lines for the selected pages, in the order of the selection
ExpectedCalls == [k \in 1..Len(plan.to_export) |-> [p |-> plan.to_export[k].idx + 1,
                                                    o |-> plan.to_export[k].filename]]

\* C24: the renderer is run for the selected pages in ascending page index, once each, with
\* page number index + 1 and the page's filename in the output directory: at any moment the
\* calls made are a prefix of that list (one more than the files exported when the last call
\* failed), the whole list when the run has come to its end, and none in a dry run.
C24_RenderOrder ==
    (pc \in {"planned", "replace", "done"} /\ ~plan.raised) =>
        /\ \A k, l \in 1..Len(plan.to_export) :
              k < l => plan.to_export[k].idx < plan.to_export[l].idx
        /\ Range(plan.to_export) \subseteq Range(plan.file_specs)
        /\ Len(calls) <= Len(ExpectedCalls)
        /\ calls = SubSeq(ExpectedCalls, 1, Len(calls))
        /\ opts.dry_run => calls = <<>>
        /\ ~opts.dry_run => Len(calls) = Len(exported) + (IF RendererStopped THEN 1 ELSE 0)
        /\ CompletedForReal => calls = ExpectedCalls

\* C24 witness: of three pages the first and the third were selected and rendered, as
\* drawio pages 1 and 3
C24_Witness ==
    /\ CompletedForReal
    /\ Len(plan.file_specs) = 3
    /\ Len(calls) = 2
    /\ calls[1].p = 1 /\ calls[2].p = 3
    /\ calls[2].o = plan.file_specs[3].filename

---------------------------------------------------------------------------
(* Runs that follow a completed run: the specification starts in the state *)
(* a completed, non-dry run on the document leaves behind (every page      *)
(* rendered, the manifest saved, the process returned), so that two more   *)
(* runs and the edits between them fit into the bounds.                    *)

\* the output directory after export_pages / do_export rendered every page of d
OutputsOf(d, v) ==
    LET pp == plan_pages(d, v)
        names == {pp.file_specs[i].filename : i \in 1..Len(pp.file_specs)}
    IN  [f \in names |->
            pp.hashes[(CHOOSE i \in 1..Len(pp.file_specs) : pp.file_specs[i].filename = f) - 1]]

\* the manifest save_manifest wrote at the end of that run
ManifestOf(d, v) == Dump(NewPages(plan_pages(d, v)))

InitAfterRun ==
    /\ variant \in {"cli", "script"}
    /\ tmpfile = NoFile
    /\ pc = "idle"
    /\ opts = NoOpts
    /\ plan = NoPlan
    /\ todo = NoTodo
    /\ exported = <<>>
    /\ exitCode = "none"
    /\ budget = [runs |-> 0, env |-> 0]
    /\ outdirExists = TRUE
    /\ trace = <<>>
    /\ git = NoGit
    /\ calls = <<>>
    /\ prevManifest = NoFile
    /\ InitHash
    /\ doc \in {Doc(ds) : ds \in SeqsUpTo(SeedPages, MaxPages) \ {<<>>}}
    /\ files = OutputsOf(doc, variant)
    /\ manifest = ManifestOf(doc, variant)
    /\ hist = [completed |-> TRUE, doc |-> doc, removed |-> {}]

SpecAfterRun == InitAfterRun /\ [][Next]_vars

\* C25: whenever a run completes (not a dry run), the output file of every page of the
\* document, selected or not, exists and was rendered from content whose fingerprint is the
\* page's current fingerprint.
C25_OutputsFresh ==
    CompletedForReal =>
        \A i \in Pages :
            /\ IsFile(files, plan.file_specs[i].filename)
            /\ files[plan.file_specs[i].filename] = plan.hashes[plan.file_specs[i].idx]

\* the stale files of the run whose path is the output path of a page of the document
StaleAndCurrent == Range(plan.stale) \cap CurrentFilenames

\* C26: with manifests written by the tool, after a run that completes without dry-run the
\* output file of every page of the document exists; and a file listed for deletion as
\* stale whose path is also the output path of a current page belongs to a page that the
\* same run selects for export (so it is rendered again after the deletion).
C26_StaleKeepsCurrent ==
    /\ CompletedForReal => AllOutputsPresent
    /\ (pc \in {"planned", "replace", "done"} /\ ~plan.raised) =>
          \A i \in Pages : plan.file_specs[i].filename \in StaleAndCurrent => IsSelected(i)

\* C26 witness: a completed run removed, as stale, a file that is the output of a current
\* page (the entry of a page index that no longer exists), and rendered it again
C26_Witness ==
    /\ CompletedForReal
    /\ StaleAndCurrent # {}
    /\ \E i \in 1..Len(trace) : trace[i] = Ev("rm", "ok")
    /\ StaleAndCurrent \subseteq Range(exported)
    /\ AllOutputsPresent

\* C27: a run that ended on a renderer failure or a missing renderer (exit 3, exit 2) leaves
\* the manifest file exactly as the run found it, and leaves no temporary manifest behind.
C27_AbortKeepsManifest ==
    (pc = "done" /\ exitCode \in {"failed", "not-found"}) =>
        /\ manifest = prevManifest
        /\ tmpfile = NoFile

\* C27 witness: the renderer failed after a page was rendered, in a run that would have
\* changed an existing manifest; the manifest is the one the run found
C27_Witness ==
    /\ pc = "done" /\ exitCode = "failed"
    /\ exported # <<>>
    /\ prevManifest.kind = "json"
    /\ plan.new_manifest # prevManifest
    /\ manifest = prevManifest

---------------------------------------------------------------------------
(* Every run made with --clean: the cli, started after a completed run,    *)
(* always with clean-up asked for; between the runs the document is        *)
(* edited, and nothing else touches the output directory or the manifest.  *)

InitCleanRuns == InitAfterRun /\ variant = "cli"

NextCleanRuns ==
    \/ \E o \in {x \in Options : x.clean} : Start(o)
    \/ RemoveStale(TRUE)
    \/ \E outcome \in {"ok", "not-found", "failed"} : Render(outcome)
    \/ WriteTmp
    \/ Replace
    \/ Return
    \/ \E i \in 1..MaxPages, t \in EditTitles : EditTitle(i, t)
    \/ \E i \in 1..MaxPages, b \in Bodies : EditBody(i, b)
    \/ \E p \in SeedPages : AppendPage(p)
    \/ \E i \in 1..MaxPages : DeletePage(i)
    \/ \E d \in Rewritten : Rewrite(d)

SpecCleanRuns == InitCleanRuns /\ [][NextCleanRuns]_vars

\* C28: with every run made with clean-up, whenever a run completes (not a dry run), every
\* file the tool has rendered into the output directory and that still exists is the output
\* file of a page of the current document.
C28_NoOrphans ==
    CompletedForReal => DOMAIN files \subseteq CurrentFilenames

=============================================================================
